---- MODULE Spec2Model ----
(***************************************************************************)
(* polisim: the influence graph (libpolisim/src/sim.rs), the simulator's   *)
(* iterative score update and vote finalisation, the majority evaluator,   *)
(* and the TOML loader's validation (libpolisim/src/loader.rs).            *)
(*                                                                         *)
(* f64 values are modelled as finite rationals n/d in lowest terms that    *)
(* carry the IEEE-754 sign bit, so that +0.0 and -0.0 are distinct and     *)
(* f64::signum behaves as in Rust.  Rounding, infinities and NaN are not   *)
(* modelled: every input is drawn from small rationals on which the        *)
(* arithmetic below is exact.  A NodeIndex i of the code is position i+1   *)
(* of the corresponding sequence here.                                     *)
(***************************************************************************)
EXTENDS Integers, Sequences, FiniteSets, TLC

VARIABLES
    congress,    \* Simulator.congress: the CongressGraph the simulator borrows
    proposal,    \* Simulator.proposal
    scores,      \* Simulator.scores
    votes,       \* Simulator.votes
    pc,          \* position of the caller / of run
    max_rounds,  \* run's argument
    threshold,   \* run's argument
    round,       \* completed iterations of run's outer loop
    order,       \* run's shuffled processing order of the current round
    pos,         \* next position of order to process
    ran,         \* history: a call of run has returned
    spent,       \* history: rounds performed by all calls of run so far
    updates,     \* history: calls of update_node_score in the current run
    finalized,   \* history: executions of the finalisation loop in the current run
    verdict,     \* result of the last passes(rule) call
    raw,         \* loader: the parsed RawConfig (or a read/parse failure)
    lpc,         \* loader: position in load_congress_graph_from_toml
    index_map,   \* loader: id -> NodeIndex
    cg,          \* loader: the graph under construction
    li,          \* loader: index of the next member / edge / party
    members_idx, \* loader: handles of the party being resolved
    lk,          \* loader: index of the next member id of that party
    loaded       \* loader: the returned Result

vars == <<congress, proposal, scores, votes, pc, max_rounds, threshold, round,
          order, pos, ran, spent, updates, finalized, verdict,
          raw, lpc, index_map, cg, li, members_idx, lk, loaded>>

simVars == <<congress, proposal, scores, votes, pc, max_rounds, threshold, round,
             order, pos, ran, spent, updates, finalized, verdict>>

loaderVars == <<raw, lpc, index_map, cg, li, members_idx, lk, loaded>>

----------------------------------------------------------------------------
(* f64 arithmetic on finite values *)

Abs(x) == IF x < 0 THEN -x ELSE x

GCD[a \in Nat, b \in Nat] == IF b = 0 THEN a ELSE GCD[b, a % b]

\* n/d (d > 0) in lowest terms; a zero made from a literal is +0.0
Rat[n \in Int, d \in Nat] ==
    IF n = 0 THEN [n |-> 0, d |-> 1, neg |-> FALSE]
    ELSE [n |-> n \div GCD[Abs(n), d], d |-> d \div GCD[Abs(n), d], neg |-> n < 0]

\* the finite f64 values
F64 == [n : Int, d : Nat, neg : BOOLEAN]

Zero == Rat[0, 1]
One == Rat[1, 1]
NegZero == [n |-> 0, d |-> 1, neg |-> TRUE]

\* sign bit given, magnitude normalised
WithSign[n \in Int, d \in Nat, s \in BOOLEAN] ==
    [n |-> Rat[n, d].n, d |-> Rat[n, d].d, neg |-> s]

FNeg(a) == [n |-> -a.n, d |-> a.d, neg |-> ~a.neg]

FAbs(a) == [n |-> Abs(a.n), d |-> a.d, neg |-> FALSE]

\* IEEE-754: the sign of a product or quotient is the XOR of the signs
FMul[a \in F64, b \in F64] == WithSign[a.n * b.n, a.d * b.d, a.neg # b.neg]

FDiv[a \in F64, b \in F64] ==
    WithSign[IF b.n < 0 THEN -(a.n * b.d) ELSE a.n * b.d,
             Abs(a.d * b.n),
             a.neg # b.neg]

\* IEEE-754 round-to-nearest: an exact zero sum is -0.0 only when both
\* operands are negative (zeros), +0.0 otherwise
FAdd[a \in F64, b \in F64] ==
    IF a.n * b.d + b.n * a.d = 0
    THEN [n |-> 0, d |-> 1, neg |-> a.neg /\ b.neg]
    ELSE Rat[a.n * b.d + b.n * a.d, a.d * b.d]

FSub[a \in F64, b \in F64] == FAdd[a, FNeg(b)]

\* mutant: a non-strict comparison
FGtOrEqual(a, b) == a.n * b.d >= b.n * a.d

FGt(a, b) == a.n * b.d > b.n * a.d
FLt(a, b) == a.n * b.d < b.n * a.d
FEq(a, b) == a.n * b.d = b.n * a.d

\* f64::signum: 1.0 for a positive number and +0.0, -1.0 for a negative
\* number and -0.0 (the sign bit decides, also at zero)
Signum(a) == IF a.neg THEN FNeg(One) ELSE One

\* x > f64::EPSILON, EPSILON = 2^-52:  |n|/d > 2^-52  iff  |n| > floor(d / 2^52)
GtEpsilon(a) == a.n > (a.d \div 67108864) \div 67108864

\* x < f64::EPSILON:  n/d < 2^-52  iff  n * 2^52 < d  iff  n <= floor((d-1) / 2^52)
LtEpsilon(a) == a.n <= ((a.d - 1) \div 67108864) \div 67108864

\* usize as f64
AsF64(k) == Rat[k, 1]

RECURSIVE ISqrtFrom(_, _)
ISqrtFrom(k, r) == IF r * r >= k THEN r ELSE ISqrtFrom(k, r + 1)

\* f64::sqrt on the values whose root is rational (the model's vectors have
\* rational norms)
FSqrt(a) == Rat[ISqrtFrom(a.n, 0), ISqrtFrom(a.d, 0)]

----------------------------------------------------------------------------
(* DVector<f64> *)

RECURSIVE DotFrom(_, _, _)
DotFrom(a, b, k) ==
    IF k = 0 THEN Zero
    ELSE FAdd[DotFrom(a, b, k - 1), FMul[a[k], b[k]]]

Dot(a, b) == DotFrom(a, b, Len(a))

VNorm(a) == FSqrt(Dot(a, a))

CosineSimilarity(a, b) ==
    LET dot_product == Dot(a, b)
        norm_a == VNorm(a)
        norm_b == VNorm(b)
    IN  IF LtEpsilon(FAbs(norm_a)) \/ LtEpsilon(FAbs(norm_b))
        THEN Zero
        ELSE FDiv[dot_product, FMul[norm_a, norm_b]]

----------------------------------------------------------------------------
(* CongressGraph *)

\* Option<T>: None is <<>>, Some(x) is <<x>>
None == <<>>
Some(x) == <<x>>

CongressGraphNew ==
    [nodes |-> <<>>, edges |-> <<>>, parties |-> <<>>, node_party_map |-> <<>>]

NodeCount(g) == Len(g.nodes)

NodeIndices(g) == 1 .. NodeCount(g)

AddNode(g, node) == [g EXCEPT !.nodes = Append(@, node)]

AddEdge(g, from, to, weight) ==
    [g EXCEPT !.edges = Append(@, [from |-> from, to |-> to, weight |-> weight])]

\* HashMap::insert for every member: a later party overwrites an earlier one
AddParty(g, party) ==
    LET party_idx == Len(g.parties) + 1
        ms == {party.members[k] : k \in 1 .. Len(party.members)}
    IN  [g EXCEPT
            !.node_party_map =
                [i \in (DOMAIN g.node_party_map) \cup ms |->
                    IF i \in ms THEN party_idx ELSE g.node_party_map[i]],
            !.parties = Append(@, party)]

GetPartyIndex(g, node_idx) ==
    IF node_idx \in DOMAIN g.node_party_map
    THEN Some(g.node_party_map[node_idx])
    ELSE None

GetParty(g, party_idx) ==
    IF party_idx \in 1 .. Len(g.parties) THEN Some(g.parties[party_idx]) ELSE None

----------------------------------------------------------------------------
(* Simulator *)

\* Simulator::new: scores = alignment + bias, votes all 0
NewScores(g, prop) ==
    [i \in NodeIndices(g) |->
        FAdd[CosineSimilarity(g.nodes[i].ideal, prop), g.nodes[i].bias]]

NewVotes(g) == [i \in NodeIndices(g) |-> 0]

\* the incoming edges of node_idx from edge k downwards: petgraph walks a
\* node's incoming edges from the most recently added to the oldest
RECURSIVE PeerSums(_, _, _, _, _)
PeerSums(g, sc, node_idx, k, acc) ==
    IF k = 0 THEN acc
    ELSE LET e == g.edges[k]
         IN  IF e.to = node_idx
             THEN PeerSums(g, sc, node_idx, k - 1,
                    [weighted_sum |->
                        FAdd[acc.weighted_sum, FMul[e.weight, Signum(sc[e.from])]],
                     total_weight |-> FAdd[acc.total_weight, e.weight]])
             ELSE PeerSums(g, sc, node_idx, k - 1, acc)

\* mutant: the weighted sum is not divided by the total weight
CalculatePeerPressureRaw(g, sc, node_idx) ==
    LET acc == PeerSums(g, sc, node_idx, Len(g.edges),
                        [weighted_sum |-> Zero, total_weight |-> Zero])
    IN  IF GtEpsilon(FAbs(acc.total_weight))
        THEN acc.weighted_sum
        ELSE Zero

CalculatePeerPressure(g, sc, node_idx) ==
    LET acc == PeerSums(g, sc, node_idx, Len(g.edges),
                        [weighted_sum |-> Zero, total_weight |-> Zero])
    IN  IF GtEpsilon(FAbs(acc.total_weight))
        THEN FDiv[acc.weighted_sum, acc.total_weight]
        ELSE Zero

RECURSIVE TotalVote(_, _, _)
TotalVote(sc, ms, k) ==
    IF k = 0 THEN Zero
    ELSE FAdd[TotalVote(sc, ms, k - 1), Signum(sc[ms[k]])]

CalculatePartyPressure(g, sc, node_idx) ==
    LET pi == GetPartyIndex(g, node_idx)
        party == IF pi = None THEN None ELSE GetParty(g, pi[1])
    IN  IF party = None THEN Zero
        ELSE LET p == party[1]
                 count == Len(p.members)
                 total_vote == TotalVote(sc, p.members, count)
             IN  IF count = 0 THEN Zero
                 ELSE FMul[p.discipline, FDiv[total_vote, AsF64(count)]]

SocialPressure(g, sc, node_idx) ==
    FAdd[CalculatePeerPressure(g, sc, node_idx),
         CalculatePartyPressure(g, sc, node_idx)]

\* mutant: the two blend coefficients exchanged
UpdateNodeScoreSwapped(g, sc, node_idx, social_pressure) ==
    LET swing_factor == g.nodes[node_idx].swing
        current_score == sc[node_idx]
    IN  [sc EXCEPT ![node_idx] =
            FAdd[FMul[swing_factor, current_score],
                 FMul[FSub[One, swing_factor], social_pressure]]]

UpdateNodeScore(g, sc, node_idx, social_pressure) ==
    LET swing_factor == g.nodes[node_idx].swing
        current_score == sc[node_idx]
    IN  [sc EXCEPT ![node_idx] =
            FAdd[FMul[FSub[One, swing_factor], current_score],
                 FMul[swing_factor, social_pressure]]]

\* mutant: the lower bound compared without its negation
FinalVoteSameBound(score, th) ==
    IF FGt(score, th) THEN 1
    ELSE IF FLt(score, th) THEN -1
    ELSE 0

\* the finalisation loop of run
FinalVote(score, th) ==
    IF FGt(score, th) THEN 1
    ELSE IF FLt(score, FNeg(th)) THEN -1
    ELSE 0

\* mutant: the finalisation loop stops one node early
FinalizeVotesShort(g, sc, vs, th) ==
    [i \in DOMAIN vs |->
        IF i \in 1 .. (NodeCount(g) - 1) THEN FinalVote(sc[i], th) ELSE vs[i]]

FinalizeVotes(g, sc, vs, th) ==
    [i \in DOMAIN vs |-> IF i \in NodeIndices(g) THEN FinalVote(sc[i], th) ELSE vs[i]]

\* every index the processing of node_idx uses on scores exists
\* (a Vec index out of range panics)
IndicesInRange(g, sc, node_idx) ==
    /\ node_idx \in DOMAIN sc
    /\ node_idx \in DOMAIN g.nodes
    /\ \A k \in 1 .. Len(g.edges) :
            g.edges[k].to = node_idx => g.edges[k].from \in DOMAIN sc
    /\ LET pi == GetPartyIndex(g, node_idx)
       IN  (pi # None /\ GetParty(g, pi[1]) # None) =>
                \A k \in 1 .. Len(g.parties[pi[1]].members) :
                    g.parties[pi[1]].members[k] \in DOMAIN sc

\* the vote values passes can tally; any other value hits unreachable!()
PassesPanics(vs) == \E i \in DOMAIN vs : vs[i] \notin {1, -1, 0}

Rules == {"SIMPLE", "SUPER", "ABSSIMPLE", "ABSSUPER", "UNANIMITY"}

Tally(vs, v) == Cardinality({i \in DOMAIN vs : vs[i] = v})

Passes(vs, rule) ==
    LET yes == Tally(vs, 1)
        no == Tally(vs, -1)
        abstain == Tally(vs, 0)
        total_cast == yes + no
        total_all == yes + no + abstain
    IN  CASE rule = "SIMPLE" ->
                IF total_cast = 0 THEN FALSE
                ELSE FGt(FDiv[AsF64(yes), AsF64(total_cast)], Rat[1, 2])
          [] rule = "SUPER" ->
                IF total_cast = 0 THEN FALSE
                ELSE FGt(FDiv[AsF64(yes), AsF64(total_cast)], FDiv[Rat[2, 1], Rat[3, 1]])
          [] rule = "ABSSIMPLE" ->
                IF total_all = 0 THEN FALSE
                ELSE FGt(FDiv[AsF64(yes), AsF64(total_all)], Rat[1, 2])
          [] rule = "ABSSUPER" ->
                IF total_all = 0 THEN FALSE
                ELSE FGt(FDiv[AsF64(yes), AsF64(total_all)], FDiv[Rat[2, 1], Rat[3, 1]])
          [] rule = "UNANIMITY" ->
                total_all > 0 /\ yes = total_all

GetVote(vs, node_idx) == vs[node_idx]

GetScore(sc, node_idx) == sc[node_idx]

\* get_votes: a map from node id to vote; a later node of the same id
\* overwrites an earlier one
GetVotes(g, vs) ==
    [id \in {g.nodes[i].id : i \in NodeIndices(g)} |->
        LET i == CHOOSE j \in NodeIndices(g) :
                    /\ g.nodes[j].id = id
                    /\ \A k \in NodeIndices(g) : g.nodes[k].id = id => k <= j
        IN  vs[i]]

\* mutant: every position drawn independently, repeats possible
ShufflesWithRepeats(g) == [NodeIndices(g) -> NodeIndices(g)]

\* order.shuffle(&mut rng): any permutation of node_indices
Shuffles(g) ==
    {f \in [NodeIndices(g) -> NodeIndices(g)] :
        \A i, j \in NodeIndices(g) : f[i] = f[j] => i = j}

----------------------------------------------------------------------------
(* run, step by step *)

MaxRounds == 2

Thresholds == {Rat[1, 10], Rat[-1, 2]}

\* the caller invokes run(max_rounds, threshold)
StartRun(mr, th) ==
    /\ pc = "idle"
    /\ spent + mr <= MaxRounds
    /\ pc' = "round"
    /\ max_rounds' = mr
    /\ threshold' = th
    /\ round' = 0
    /\ order' = <<>>
    /\ pos' = 1
    /\ updates' = 0
    /\ finalized' = 0
    /\ UNCHANGED <<congress, proposal, scores, votes, ran, spent, verdict>>
    /\ UNCHANGED loaderVars

\* one iteration of the outer loop begins: clone and shuffle the node indices
Shuffle ==
    /\ pc = "round"
    /\ round < max_rounds
    /\ \E o \in Shuffles(congress) :
            /\ order' = o
            /\ pos' = 1
            /\ IF Len(o) = 0
               THEN pc' = "round" /\ round' = round + 1 /\ spent' = spent + 1
               ELSE pc' = "node" /\ round' = round /\ spent' = spent
    /\ UNCHANGED <<congress, proposal, scores, votes, max_rounds, threshold,
                   ran, updates, finalized, verdict>>
    /\ UNCHANGED loaderVars

\* mutant: the node's vote is written together with its score
UpdateNodeEager ==
    /\ pc = "node"
    /\ pos <= Len(order)
    /\ LET node_idx == order[pos]
           sc == UpdateNodeScore(congress, scores, node_idx,
                                 SocialPressure(congress, scores, node_idx))
       IN  /\ scores' = sc
           /\ votes' = [votes EXCEPT ![node_idx] = FinalVote(sc[node_idx], threshold)]
           /\ updates' = updates + 1
           /\ pos' = pos + 1
           /\ IF pos = Len(order)
              THEN pc' = "round" /\ round' = round + 1 /\ spent' = spent + 1
              ELSE pc' = "node" /\ round' = round /\ spent' = spent
    /\ UNCHANGED <<congress, proposal, max_rounds, threshold, order,
                   ran, finalized, verdict>>
    /\ UNCHANGED loaderVars

\* one iteration of the inner loop: pressures, then update_node_score
UpdateNode ==
    /\ pc = "node"
    /\ pos <= Len(order)
    /\ LET node_idx == order[pos]
       IN  IF IndicesInRange(congress, scores, node_idx)
           THEN /\ scores' = UpdateNodeScore(congress, scores, node_idx,
                                SocialPressure(congress, scores, node_idx))
                /\ updates' = updates + 1
                /\ pos' = pos + 1
                /\ IF pos = Len(order)
                   THEN pc' = "round" /\ round' = round + 1 /\ spent' = spent + 1
                   ELSE pc' = "node" /\ round' = round /\ spent' = spent
           ELSE /\ pc' = "panicked"
                /\ UNCHANGED <<scores, updates, pos, round, spent>>
    /\ UNCHANGED <<congress, proposal, votes, max_rounds, threshold, order,
                   ran, finalized, verdict>>
    /\ UNCHANGED loaderVars

\* the outer loop is over: finalise the votes, run returns
Finalize ==
    /\ pc = "round"
    /\ round >= max_rounds
    /\ IF NodeIndices(congress) \subseteq (DOMAIN scores) \cap (DOMAIN votes)
       THEN /\ votes' = FinalizeVotes(congress, scores, votes, threshold)
            /\ finalized' = finalized + 1
            /\ ran' = TRUE
            /\ pc' = "idle"
       ELSE /\ pc' = "panicked"
            /\ UNCHANGED <<votes, finalized, ran>>
    /\ UNCHANGED <<congress, proposal, scores, max_rounds, threshold, round,
                   order, pos, spent, updates, verdict>>
    /\ UNCHANGED loaderVars

\* the caller asks passes(rule)
PassesCall(rule) ==
    /\ pc = "idle"
    /\ ~PassesPanics(votes)
    /\ verdict' = [rule |-> rule, result |-> Passes(votes, rule)]
    /\ UNCHANGED <<congress, proposal, scores, votes, pc, max_rounds, threshold,
                   round, order, pos, ran, spent, updates, finalized>>
    /\ UNCHANGED loaderVars

----------------------------------------------------------------------------
(* load_congress_graph_from_toml, step by step *)

Ok(g) == [ok |-> TRUE, graph |-> g]
Err(msg) == [ok |-> FALSE, error |-> msg]
NotReturned == [ok |-> FALSE, error |-> "pending"]

\* fs::read_to_string / toml::from_str failed: raw holds no RawConfig
Unparsed == [parsed |-> FALSE]

MapGet(m, key) == IF key \in DOMAIN m THEN Some(m[key]) ELSE None

MapInsert(m, key, val) ==
    [k \in (DOMAIN m) \cup {key} |-> IF k = key THEN val ELSE m[k]]

LoadFail(msg) ==
    /\ loaded' = Err(msg)
    /\ lpc' = "returned"
    /\ UNCHANGED <<raw, index_map, cg, li, members_idx, lk>>

\* steps 1 and 2: read and parse, create the empty graph
LoadParse ==
    /\ lpc = "parse"
    /\ IF ~raw.parsed
       THEN LoadFail("read or parse error")
       ELSE /\ cg' = CongressGraphNew
            /\ index_map' = <<>>
            /\ li' = 1
            /\ lpc' = "members"
            /\ UNCHANGED <<raw, members_idx, lk, loaded>>
    /\ UNCHANGED simVars

\* mutant: the ideal vector's length is not checked
LoadMemberUnchecked ==
    /\ lpc = "members"
    /\ li <= Len(raw.congress_members)
    /\ LET rm == raw.congress_members[li]
       IN  /\ cg' = AddNode(cg, [id |-> rm.id, ideal |-> rm.ideal,
                                 bias |-> rm.bias, swing |-> rm.swing])
           /\ index_map' = MapInsert(index_map, rm.id, NodeCount(cg) + 1)
           /\ li' = li + 1
           /\ UNCHANGED <<raw, lpc, members_idx, lk, loaded>>
    /\ UNCHANGED simVars

\* step 3: one member
LoadMember ==
    /\ lpc = "members"
    /\ li <= Len(raw.congress_members)
    /\ LET rm == raw.congress_members[li]
       IN  IF Len(rm.ideal) # raw.ideal_dimension
           THEN LoadFail("ideal length differs from ideal_dimension")
           ELSE /\ cg' = AddNode(cg, [id |-> rm.id, ideal |-> rm.ideal,
                                      bias |-> rm.bias, swing |-> rm.swing])
                /\ index_map' = MapInsert(index_map, rm.id, NodeCount(cg) + 1)
                /\ li' = li + 1
                /\ UNCHANGED <<raw, lpc, members_idx, lk, loaded>>
    /\ UNCHANGED simVars

MembersDone ==
    /\ lpc = "members"
    /\ li > Len(raw.congress_members)
    /\ lpc' = "edges"
    /\ li' = 1
    /\ UNCHANGED <<raw, index_map, cg, members_idx, lk, loaded>>
    /\ UNCHANGED simVars

\* if let Some(edges) = raw.edges: the edges to insert, none without the table
RawEdges == IF raw.edges = None THEN <<>> ELSE raw.edges[1]

\* step 4: one edge
LoadEdge ==
    /\ lpc = "edges"
    /\ li <= Len(RawEdges)
    /\ LET e == RawEdges[li]
           from_idx == MapGet(index_map, e.from)
           to_idx == MapGet(index_map, e.to)
       IN  IF from_idx = None THEN LoadFail("Unknown edge.from node")
           ELSE IF to_idx = None THEN LoadFail("Unknown edge.to node")
           ELSE /\ cg' = AddEdge(cg, from_idx[1], to_idx[1], e.weight)
                /\ li' = li + 1
                /\ UNCHANGED <<raw, lpc, index_map, members_idx, lk, loaded>>
    /\ UNCHANGED simVars

EdgesDone ==
    /\ lpc = "edges"
    /\ li > Len(RawEdges)
    /\ lpc' = "parties"
    /\ li' = 1
    /\ lk' = 1
    /\ members_idx' = <<>>
    /\ UNCHANGED <<raw, index_map, cg, loaded>>
    /\ UNCHANGED simVars

\* step 5: resolve one member id of the current party
LoadPartyMember ==
    /\ lpc = "parties"
    /\ li <= Len(raw.parties)
    /\ lk <= Len(raw.parties[li].members)
    /\ LET ni == MapGet(index_map, raw.parties[li].members[lk])
       IN  IF ni = None THEN LoadFail("Party refers to unknown member")
           ELSE /\ members_idx' = Append(members_idx, ni[1])
                /\ lk' = lk + 1
                /\ UNCHANGED <<raw, lpc, index_map, cg, li, loaded>>
    /\ UNCHANGED simVars

\* step 5: the current party is resolved, add it
LoadParty ==
    /\ lpc = "parties"
    /\ li <= Len(raw.parties)
    /\ lk > Len(raw.parties[li].members)
    /\ cg' = AddParty(cg, [id |-> raw.parties[li].id,
                           discipline |-> raw.parties[li].discipline,
                           members |-> members_idx])
    /\ li' = li + 1
    /\ lk' = 1
    /\ members_idx' = <<>>
    /\ UNCHANGED <<raw, lpc, index_map, loaded>>
    /\ UNCHANGED simVars

LoadOk ==
    /\ lpc = "parties"
    /\ li > Len(raw.parties)
    /\ loaded' = Ok(cg)
    /\ lpc' = "returned"
    /\ UNCHANGED <<raw, index_map, cg, li, members_idx, lk>>
    /\ UNCHANGED simVars

\* the caller builds a Simulator on the loaded graph
NewSimulator(prop) ==
    /\ pc = "unbuilt"
    /\ lpc = "returned"
    /\ loaded.ok
    /\ congress' = loaded.graph
    /\ proposal' = prop
    /\ scores' = NewScores(loaded.graph, prop)
    /\ votes' = NewVotes(loaded.graph)
    /\ pc' = "idle"
    /\ UNCHANGED <<max_rounds, threshold, round, order, pos, ran, spent,
                   updates, finalized, verdict>>
    /\ UNCHANGED loaderVars

----------------------------------------------------------------------------
(* the configurations explored *)

Vec(x, y) == <<Rat[x, 1], Rat[y, 1]>>

RawMember(id, ideal, bias, swing) ==
    [id |-> id, ideal |-> ideal, bias |-> bias, swing |-> swing]

RawEdge(from, to, weight) == [from |-> from, to |-> to, weight |-> weight]

RawParty(id, discipline, members) ==
    [id |-> id, discipline |-> discipline, members |-> members]

RawConfig(dim, members, parties, edges) ==
    [parsed |-> TRUE, ideal_dimension |-> dim, congress_members |-> members,
     parties |-> parties, edges |-> edges]

Proposals == {Vec(3, 4)}

\* alignments 1, -1 and 0 with the proposal
Pro == Vec(3, 4)
Con == Vec(-3, -4)
Nil == Vec(0, 0)

IdealProfiles ==
    {<<Pro, Pro, Pro>>, <<Pro, Con, Nil>>, <<Nil, Nil, Nil>>,
     <<Con, Pro, Pro>>, <<Nil, Pro, Con>>, <<Con, Con, Con>>}

BiasProfiles == {<<Zero, Zero, Zero>>, <<Rat[-3, 1], Rat[1, 2], Zero>>}

SwingProfiles ==
    {<<Zero, Zero, Zero>>, <<One, One, One>>,
     <<Rat[1, 2], Rat[1, 2], Rat[1, 2]>>,
     <<Zero, Rat[1, 2], One>>, <<One, Zero, Rat[1, 2]>>}

\* edges and parties over the members A, B, C
Topologies ==
    { \* one party of all, one edge
      [edges |-> Some(<<RawEdge("A", "B", One)>>),
       parties |-> <<RawParty("P", One, <<"A", "B", "C">>)>>],
      \* two sources of different weight, no party
      [edges |-> Some(<<RawEdge("A", "C", One), RawEdge("B", "C", Rat[2, 1])>>),
       parties |-> <<>>],
      \* a repeated edge, a zero weight, a self loop, two parties
      [edges |-> Some(<<RawEdge("B", "A", Rat[2, 1]), RawEdge("C", "C", One),
                        RawEdge("B", "A", Zero)>>),
       parties |-> <<RawParty("P", Rat[1, 2], <<"A", "B">>),
                     RawParty("Q", Zero, <<"C">>)>>],
      \* no edge table; overlapping parties, a repeated member, an empty party
      [edges |-> None,
       parties |-> <<RawParty("P", One, <<"A", "B">>),
                     RawParty("Q", Rat[1, 2], <<"B", "C", "C">>),
                     RawParty("R", One, <<>>)>>],
      \* a negative weight and a discipline above 1
      [edges |-> Some(<<RawEdge("A", "B", Rat[-1, 1]), RawEdge("C", "B", Rat[2, 1])>>),
       parties |-> <<RawParty("P", Rat[2, 1], <<"A", "C">>)>>],
      \* incoming weight zero in total
      [edges |-> Some(<<RawEdge("A", "B", Zero)>>),
       parties |-> <<>>] }

ThreeMemberConfigs ==
    { RawConfig(2,
        <<RawMember("A", i[1], b[1], s[1]), RawMember("B", i[2], b[2], s[2]),
          RawMember("C", i[3], b[3], s[3])>>,
        t.parties, t.edges) :
        i \in IdealProfiles, b \in BiasProfiles, s \in SwingProfiles, t \in Topologies }

\* no member at all; a single member influencing itself
SmallConfigs ==
    { RawConfig(2, <<>>, <<>>, None),
      RawConfig(2, <<RawMember("A", Vec(3, 4), Zero, Rat[1, 2])>>,
                <<RawParty("P", One, <<"A">>)>>,
                Some(<<RawEdge("A", "A", One)>>)) }

SimConfigs == ThreeMemberConfigs \cup SmallConfigs

NoVerdict == [rule |-> "none", result |-> FALSE]

InitWith(configs) ==
    /\ raw \in configs
    /\ lpc = "parse"
    /\ index_map = <<>>
    /\ cg = CongressGraphNew
    /\ li = 1
    /\ members_idx = <<>>
    /\ lk = 1
    /\ loaded = NotReturned
    /\ congress = CongressGraphNew
    /\ proposal = <<>>
    /\ scores = <<>>
    /\ votes = <<>>
    /\ pc = "unbuilt"
    /\ max_rounds = 0
    /\ threshold = Zero
    /\ round = 0
    /\ order = <<>>
    /\ pos = 1
    /\ ran = FALSE
    /\ spent = 0
    /\ updates = 0
    /\ finalized = 0
    /\ verdict = NoVerdict

Init == InitWith(SimConfigs)

NextLoader ==
    \/ LoadParse
    \/ LoadMember
    \/ MembersDone
    \/ LoadEdge
    \/ EdgesDone
    \/ LoadPartyMember
    \/ LoadParty
    \/ LoadOk

NextRun ==
    \/ \E mr \in 0 .. MaxRounds, th \in Thresholds : StartRun(mr, th)
    \/ Shuffle
    \/ UpdateNode
    \/ Finalize

Next ==
    \/ NextLoader
    \/ \E prop \in Proposals : NewSimulator(prop)
    \/ NextRun

Spec == Init /\ [][Next]_vars

\* run is one sequential loop: once called, it keeps taking its next step
RunStep == Shuffle \/ UpdateNode \/ Finalize

\* termination is explored on every topology, with mixed swings and biases
FairConfigs ==
    SmallConfigs \cup
    { RawConfig(2,
        <<RawMember("A", Pro, Rat[-3, 1], Zero), RawMember("B", Con, Rat[1, 2], Rat[1, 2]),
          RawMember("C", Nil, Zero, One)>>,
        t.parties, t.edges) : t \in Topologies }

InitFair == InitWith(FairConfigs)

FairSpec == InitFair /\ [][Next]_vars /\ WF_vars(RunStep)

----------------------------------------------------------------------------
(* the end-to-end scenario: A, B, C in one party of discipline 1.0, one    *)
(* edge A -> B of weight 1.0, every swing 1.0, every ideal equal to the    *)
(* proposal and every bias 0                                               *)

E2EConfig ==
    RawConfig(2,
        <<RawMember("A", Pro, Zero, One), RawMember("B", Pro, Zero, One),
          RawMember("C", Pro, Zero, One)>>,
        <<RawParty("P", One, <<"A", "B", "C">>)>>,
        Some(<<RawEdge("A", "B", One)>>))

InitE2E == InitWith({E2EConfig})

SpecE2E == InitE2E /\ [][Next]_vars

----------------------------------------------------------------------------
(* the loader alone, on valid and invalid configurations *)

MaxMembers == 2
MaxEdges == 1
MaxPartyMembers == 2

LoaderIds == {"A", "B"}

SeqsUpTo(S, n) == UNION {[1 .. k -> S] : k \in 0 .. n}

\* ideal vectors of the declared dimension 2, and one too long
LoaderMembers ==
    {RawMember(id, ideal, Zero, Rat[1, 2]) :
        id \in LoaderIds, ideal \in {Vec(3, 4), <<One, Zero, Zero>>}}

LoaderEdges == {RawEdge(f, t, One) : f \in LoaderIds, t \in LoaderIds}

LoaderParties ==
    {RawParty("P", One, ms) : ms \in SeqsUpTo(LoaderIds, MaxPartyMembers)}

LoaderConfigs ==
    {Unparsed} \cup
    { RawConfig(2, ms, ps, es) :
        ms \in SeqsUpTo(LoaderMembers, MaxMembers),
        es \in {None} \cup {Some(e) : e \in SeqsUpTo(LoaderEdges, MaxEdges)},
        ps \in {<<>>} \cup {<<p>> : p \in LoaderParties}
                      \cup {<<RawParty("Q", One, <<"A">>), p>> : p \in LoaderParties} }

InitLoader == InitWith(LoaderConfigs)

SpecLoader == InitLoader /\ [][NextLoader]_vars

----------------------------------------------------------------------------
(* passes on every vector of votes *)

MaxVoters == 7

RECURSIVE BareGraph(_)
BareGraph(n) ==
    IF n = 0 THEN CongressGraphNew
    ELSE AddNode(BareGraph(n - 1), [id |-> "M", ideal |-> Nil, bias |-> Zero, swing |-> Zero])

\* a simulator after run(0, 0.1): scores n, 0, -n give the votes +1, 0, -1
InitPasses ==
    /\ votes \in SeqsUpTo({1, 0, -1}, MaxVoters)
    /\ congress = BareGraph(Len(votes))
    /\ scores = [i \in DOMAIN votes |-> Rat[votes[i], 1]]
    /\ proposal = Nil
    /\ pc = "idle"
    /\ max_rounds = 0
    /\ threshold = Rat[1, 10]
    /\ round = 0
    /\ order = <<>>
    /\ pos = 1
    /\ ran = TRUE
    /\ spent = 0
    /\ updates = 0
    /\ finalized = 1
    /\ verdict = NoVerdict
    /\ raw = Unparsed
    /\ lpc = "returned"
    /\ index_map = <<>>
    /\ cg = CongressGraphNew
    /\ li = 1
    /\ members_idx = <<>>
    /\ lk = 1
    /\ loaded = Err("read or parse error")

NextPasses == \E rule \in Rules : PassesCall(rule)

SpecPasses == InitPasses /\ [][NextPasses]_vars

----------------------------------------------------------------------------
(* Claims *)

RECURSIVE CountOf(_, _, _)
CountOf(vs, v, k) ==
    IF k = 0 THEN 0
    ELSE CountOf(vs, v, k - 1) + (IF vs[k] = v THEN 1 ELSE 0)

\* the pass conditions of the majority table, over the counts
TableSays(rule, yes, no, abstain) ==
    LET cast == yes + no
        all == yes + no + abstain
    IN  CASE rule = "SIMPLE" -> cast > 0 /\ 2 * yes > cast
          [] rule = "SUPER" -> cast > 0 /\ 3 * yes > 2 * cast
          [] rule = "ABSSIMPLE" -> all > 0 /\ 2 * yes > all
          [] rule = "ABSSUPER" -> all > 0 /\ 3 * yes > 2 * all
          [] rule = "UNANIMITY" -> all > 0 /\ yes = all

\* C1: on every vector of votes over {+1, 0, -1}, passes(rule) returns what
\* the majority table says for the counts of yes, no and abstain, every
\* comparison strict, and false on an empty denominator.
PassesMatchesTable ==
    verdict.rule \in Rules =>
        verdict.result =
            TableSays(verdict.rule,
                      CountOf(votes, 1, Len(votes)),
                      CountOf(votes, -1, Len(votes)),
                      CountOf(votes, 0, Len(votes)))

\* C1 witness: SUPER asked on 4 yes, 2 no, 1 abstain (exactly 2/3 of the
\* cast votes) and answered false.
PassesTieWitness ==
    /\ verdict.rule = "SUPER"
    /\ CountOf(votes, 1, Len(votes)) = 4
    /\ CountOf(votes, -1, Len(votes)) = 2
    /\ CountOf(votes, 0, Len(votes)) = 1
    /\ verdict.result = FALSE

RunReturned == pc = "idle" /\ ran

\* C2: after run returns, with threshold >= 0, every vote is +1 exactly when
\* the final score exceeds the threshold, -1 exactly when it is below the
\* negated threshold and 0 otherwise; passes meets no illegal vote value.
VotesFollowScores ==
    (RunReturned /\ ~FLt(threshold, Zero)) =>
        /\ DOMAIN votes = DOMAIN scores
        /\ \A i \in DOMAIN votes :
            /\ votes[i] \in {1, 0, -1}
            /\ votes[i] = 1 <=> scores[i].n * threshold.d > threshold.n * scores[i].d
            /\ votes[i] = -1 <=> scores[i].n * threshold.d < -threshold.n * scores[i].d
        /\ ~PassesPanics(votes)

\* C2 witness: a run of at least one round returned with a non-negative
\* threshold and all three vote values cast.
VotesFollowScoresWitness ==
    /\ RunReturned
    /\ ~FLt(threshold, Zero)
    /\ max_rounds >= 1
    /\ \A v \in {1, 0, -1} : \E i \in DOMAIN votes : votes[i] = v

FirstRoundDone == spent = 1 /\ pc = "round"

\* C3 (as stated): in the end-to-end scenario all three scores are still 1.0
\* after the first round.
E2EScoresRemainOne ==
    FirstRoundDone => \A i \in DOMAIN scores : scores[i] = One

\* C3 (amended): in the end-to-end scenario, after the first round the scores
\* of A and C are 1.0 and the score of B is 2.0 (peer pressure 1 plus party
\* pressure 1), for every processing order.
E2EScoresAfterRoundOne ==
    FirstRoundDone => scores = <<One, Rat[2, 1], One>>

\* C3 witness: the first round is over, B was processed before A.
E2ERoundOneWitness ==
    /\ FirstRoundDone
    /\ raw = E2EConfig
    /\ order[1] = 2
    /\ updates = 3

\* C4: in the end-to-end scenario a run of at least one round with threshold
\* 0.1 ends with three YES votes, passes(SIMPLE) and passes(UNANIMITY).
E2EAllYes ==
    (RunReturned /\ max_rounds >= 1 /\ threshold = Rat[1, 10]) =>
        /\ votes = <<1, 1, 1>>
        /\ Passes(votes, "SIMPLE")
        /\ Passes(votes, "UNANIMITY")

\* C4 witness: run(2, 0.1) has returned in the scenario.
E2EAllYesWitness ==
    /\ RunReturned
    /\ raw = E2EConfig
    /\ max_rounds = 2
    /\ threshold = Rat[1, 10]
    /\ updates = 6
    /\ Passes(votes, "UNANIMITY")

Built == pc \in {"idle", "round", "node"}

InitialScores == NewScores(congress, proposal)

AllSwingsZero == \A i \in NodeIndices(congress) : congress.nodes[i].swing.n = 0

\* C5: if every member's swing is 0, then in every state of every run, for
\* any graph and any processing order, every score is the score given at
\* construction.
StubbornScoresFixed ==
    (Built /\ AllSwingsZero) => scores = InitialScores

\* C5 witness: every swing is 0, a round is done and the next is under way
\* after four updates, and a member with a non-zero score is under a
\* non-zero social pressure.
StubbornWitness ==
    /\ Built
    /\ AllSwingsZero
    /\ pc = "node"
    /\ spent >= 1
    /\ updates >= 4
    /\ \E i \in NodeIndices(congress) :
            /\ SocialPressure(congress, scores, i).n # 0
            /\ scores[i].n # 0

\* C6: votes are written only by the finalisation step of run; from the
\* construction of the Simulator until the finalisation of the first run
\* every vote reads 0, and before run the accessors return the
\* construction-time scores and all-abstain votes, so passes is false for
\* every rule.
VotesOnlyFinalized ==
    /\ []((Built /\ ~ran) =>
            /\ \A i \in NodeIndices(congress) : GetVote(votes, i) = 0
            /\ pc = "idle" =>
                /\ \A i \in NodeIndices(congress) :
                        GetScore(scores, i) = InitialScores[i]
                /\ \A id \in DOMAIN GetVotes(congress, votes) :
                        GetVotes(congress, votes)[id] = 0
                /\ \A rule \in Rules : ~Passes(votes, rule))
    /\ [][votes' # votes =>
            \/ pc = "unbuilt" /\ pc' = "idle"
            \/ pc = "round" /\ round >= max_rounds /\ pc' = "idle"]_vars

\* C6 witness: in the first run, after four score updates, a member's score
\* is above the threshold and has moved from its initial value while every
\* vote is still 0.
VotesOnlyFinalizedWitness ==
    /\ pc = "node"
    /\ ~ran
    /\ updates >= 4
    /\ \E i \in NodeIndices(congress) :
            /\ FGt(scores[i], threshold)
            /\ scores[i] # InitialScores[i]
    /\ \A i \in NodeIndices(congress) : votes[i] = 0

AtMost(a, k) == Abs(a.n) <= k * a.d

InUnit(a) == a.n >= 0 /\ a.n <= a.d

ParametersInRange ==
    /\ \A i \in NodeIndices(congress) : InUnit(congress.nodes[i].swing)
    /\ \A k \in 1 .. Len(congress.parties) : InUnit(congress.parties[k].discipline)
    /\ \A k \in 1 .. Len(congress.edges) : congress.edges[k].weight.n >= 0

\* C10: with every swing and discipline in [0, 1] and every edge weight
\* non-negative, in every state of run the social pressure on a member lies
\* in [-2, 2] and |score| <= max(|initial score|, 2).
ScoresBounded ==
    (Built /\ ParametersInRange) =>
        \A i \in NodeIndices(congress) :
            /\ AtMost(SocialPressure(congress, scores, i), 2)
            /\ \/ AtMost(scores[i], 2)
               \/ ~FGt(FAbs(scores[i]), FAbs(InitialScores[i]))

\* C10 witness: parameters in range, a member under a social pressure of
\* exactly 2 or -2 whose score has reached 2 from an initial score below 2
\* in magnitude.
ScoresBoundedWitness ==
    /\ Built
    /\ ParametersInRange
    /\ spent >= 1
    /\ \E i \in NodeIndices(congress) :
            /\ Abs(SocialPressure(congress, scores, i).n) =
                    2 * SocialPressure(congress, scores, i).d
            /\ Abs(scores[i].n) = 2 * scores[i].d
            /\ FGt(FAbs(scores[i]), FAbs(InitialScores[i]))

\* the sign function of the claim: 0 at 0
ClaimSign(a) == IF a.n > 0 THEN One ELSE IF a.n < 0 THEN FNeg(One) ELSE Zero

RECURSIVE ClaimPeerSums(_, _, _, _)
ClaimPeerSums(g, sc, m, k) ==
    IF k = 0 THEN [weighted_sum |-> Zero, total_weight |-> Zero]
    ELSE LET rest == ClaimPeerSums(g, sc, m, k - 1)
             e == g.edges[k]
         IN  IF e.to # m THEN rest
             ELSE [weighted_sum |->
                        FAdd[rest.weighted_sum, FMul[e.weight, ClaimSign(sc[e.from])]],
                   total_weight |-> FAdd[rest.total_weight, e.weight]]

ClaimPeer(g, sc, m) ==
    LET sums == ClaimPeerSums(g, sc, m, Len(g.edges))
    IN  IF sums.total_weight.n = 0 THEN Zero
        ELSE FDiv[sums.weighted_sum, sums.total_weight]

RECURSIVE ClaimSignSum(_, _, _)
ClaimSignSum(sc, ms, k) ==
    IF k = 0 THEN Zero ELSE FAdd[ClaimSignSum(sc, ms, k - 1), ClaimSign(sc[ms[k]])]

ClaimParty(g, sc, m) ==
    IF m \notin DOMAIN g.node_party_map THEN Zero
    ELSE LET p == g.parties[g.node_party_map[m]]
         IN  FMul[p.discipline,
                  FDiv[ClaimSignSum(sc, p.members, Len(p.members)),
                       Rat[Len(p.members), 1]]]

ClaimScore(g, sc, m) ==
    FAdd[FMul[FSub[One, g.nodes[m].swing], sc[m]],
         FMul[g.nodes[m].swing, FAdd[ClaimPeer(g, sc, m), ClaimParty(g, sc, m)]]]

\* C8: each time a member m is processed its score becomes
\* (1 - swing) * score + swing * (peer + party), peer and party taken over
\* sign(score) of the current scores with sign(0) = 0, and no other score
\* changes.
UpdateUsesSign ==
    [][(pc = "node" /\ pc' # "panicked") =>
            \A i \in DOMAIN scores :
                FEq(scores'[i],
                    IF i = order[pos] THEN ClaimScore(congress, scores, i)
                    ELSE scores[i])]_vars

Running == pc \in {"round", "node"}

IsPermutation(o, S) ==
    /\ DOMAIN o = 1 .. Cardinality(S)
    /\ \A x \in S : \E k \in DOMAIN o : o[k] = x

RunCounts ==
    LET n == NodeCount(congress)
    IN  /\ pc # "panicked"
        /\ Built => DOMAIN scores = 1 .. n /\ DOMAIN votes = 1 .. n
        /\ pc = "round" =>
            /\ round <= max_rounds
            /\ updates = round * n
            /\ finalized = 0
            /\ round >= 1 => IsPermutation(order, NodeIndices(congress))
        /\ pc = "node" =>
            /\ round < max_rounds
            /\ IsPermutation(order, NodeIndices(congress))
            /\ pos \in 1 .. n
            /\ IndicesInRange(congress, scores, order[pos])
            /\ updates = round * n + (pos - 1)
            /\ finalized = 0
        /\ RunReturned =>
            /\ round = max_rounds
            /\ updates = max_rounds * n
            /\ finalized = 1

\* C9: on a loader-validated graph run(maxRounds, threshold) terminates
\* without failing: it performs exactly maxRounds rounds, each over a
\* permutation of all members with every index in range, and finalises the
\* votes exactly once, after the last round (at once, scores untouched, when
\* maxRounds = 0).
RunCompletes ==
    /\ []RunCounts
    /\ [][(pc = "round" /\ max_rounds = 0) =>
            (pc' = "idle" /\ scores' = scores)]_vars
    /\ Running ~> RunReturned

\* C9 witness: run(2, t) has returned on a three-member graph with edges and
\* parties, after two full rounds and one finalisation.
RunCompletesWitness ==
    /\ RunReturned
    /\ max_rounds = 2
    /\ NodeCount(congress) = 3
    /\ Len(congress.edges) >= 2
    /\ Len(congress.parties) >= 2
    /\ updates = 6
    /\ finalized = 1

DeclaredIds(r) == {r.congress_members[k].id : k \in 1 .. Len(r.congress_members)}

ConfigValid(r) ==
    /\ r.parsed
    /\ \A k \in 1 .. Len(r.congress_members) :
            Len(r.congress_members[k].ideal) = r.ideal_dimension
    /\ r.edges # None =>
            \A k \in 1 .. Len(r.edges[1]) :
                /\ r.edges[1][k].from \in DeclaredIds(r)
                /\ r.edges[1][k].to \in DeclaredIds(r)
    /\ \A k \in 1 .. Len(r.parties) :
            \A j \in 1 .. Len(r.parties[k].members) :
                r.parties[k].members[j] \in DeclaredIds(r)

GraphResolved(g) ==
    /\ \A k \in 1 .. Len(g.edges) :
            g.edges[k].from \in NodeIndices(g) /\ g.edges[k].to \in NodeIndices(g)
    /\ \A k \in 1 .. Len(g.parties) :
            \A j \in 1 .. Len(g.parties[k].members) :
                g.parties[k].members[j] \in NodeIndices(g)
    /\ DOMAIN g.node_party_map \subseteq NodeIndices(g)

\* C7: the loader returns a graph exactly when the configuration is valid
\* (every ideal vector of the declared dimension, every edge endpoint and
\* party member a declared id); otherwise it returns an error and no graph;
\* in a returned graph every edge endpoint and party member handle is a
\* node of that graph.
LoaderValidates ==
    lpc = "returned" =>
        /\ loaded.ok <=> ConfigValid(raw)
        /\ loaded.ok => "graph" \in DOMAIN loaded /\ GraphResolved(loaded.graph)
        /\ ~loaded.ok => "graph" \notin DOMAIN loaded

\* C7 witness: two members of the same id were added, an edge and a first
\* party were inserted, and the load failed on a party member of unknown id.
LoaderRejectsWitness ==
    /\ lpc = "returned"
    /\ ~loaded.ok
    /\ NodeCount(cg) = 2
    /\ Len(cg.edges) = 1
    /\ Len(cg.parties) = 1
    /\ li = 2
    /\ raw.parties[li].members[lk] \notin DeclaredIds(raw)

====
